---- MODULE Spec2Model ----
(***************************************************************************)
(* Model of the streaming chat core of TBYS-LLM:                            *)
(*   src/src/routes/chat.py      chat()  (the /api/chat handler)            *)
(*   src/src/models/streaming.py StreamingGenerator.generate_stream,        *)
(*                               _get_conversation_messages, _save_message  *)
(*   src/src/database.py         the conversations / messages tables        *)
(*                                                                          *)
(* Text is a sequence of one-piece strings; a token buffer is a sequence of *)
(* token ids.  Every per-request variable is a function over Reqs, one      *)
(* entry per HTTP request / StreamingGenerator instance.                    *)
(***************************************************************************)
EXTENDS Integers, Sequences, FiniteSets, TLC

\* ---------------------------------------------------------------- bounds
\* number of request slots
NumReqs == 2
\* largest max_new_tokens a request may carry
MaxNewTokens == 6
\* largest max_new_tokens of a request when two requests run concurrently
MaxNewTokensConc == 2
\* "top_k = 20", scaled to the four ids of the model vocabulary
top_k == 2
\* most conversations created, and most message rows stored, when the
\* conversation routes are exercised
MaxStoreConversations == 3
MaxStoreRows == 4
\* the range of torch.clamp(logits, min=-100, max=100), scaled to the logit
\* unit of the model (a logit v weighs 2^v in the softmax)
ClampBound == 4

Reqs == 1..NumReqs

\* ------------------------------------------------------ program constants
\* self.thinking_token_id = 151668  (</think>)
thinking_token_id == 151668
\* self.manager.tokenizer.eos_token_id  (<|im_end|> of the Qwen tokenizer)
eos_token_id == 151645
\* the [DEBUG] decode of the sampled token runs while step < 10
DebugSteps == 10

\* ids the sampler can return: an ordinary word piece, a special token that
\* is not EOS (<|endoftext|>), the thinking-end marker and EOS
OrdinaryIds == {64}
PadIds == {151643}
Vocab == OrdinaryIds \cup PadIds \cup {thinking_token_id, eos_token_id}
\* tokens dropped by decode(..., skip_special_tokens=True)
SpecialIds == PadIds \cup {eos_token_id}

\* ------------------------------------------------------------ tokenizer
TokenText(token_id) ==
    IF token_id = thinking_token_id THEN <<"</think>">> ELSE <<"a">>

\* tokenizer.decode(buffer, skip_special_tokens=True): the text of every
\* non-special token, in order
RECURSIVE decode(_)
decode(ids) ==
    IF ids = <<>> THEN <<>>
    ELSE (IF Head(ids) \in SpecialIds THEN <<>> ELSE TokenText(Head(ids)))
         \o decode(Tail(ids))

\* apply_chat_template + tokenizer([text]): one id per message (its role),
\* then the generation prompt; with thinking disabled the template closes an
\* empty think block in the prompt
RoleId(role) == IF role = "user" THEN 1 ELSE 2

RECURSIVE TemplateIds(_)
TemplateIds(msgs) ==
    IF msgs = <<>> THEN <<>>
    ELSE <<RoleId(Head(msgs).role)>> \o TemplateIds(Tail(msgs))

apply_chat_template(msgs, enable_thinking) ==
    TemplateIds(msgs) \o <<3>> \o (IF enable_thinking THEN <<>> ELSE <<4>>)

\* ------------------------------------------------------------- requests
\* str.strip() on the request's prompt
IsSpace(ch) == ch = " "

RECURSIVE LStrip(_)
LStrip(s) ==
    IF s = <<>> THEN <<>>
    ELSE IF IsSpace(Head(s)) THEN LStrip(Tail(s)) ELSE s

RECURSIVE RStrip(_)
RStrip(s) ==
    IF s = <<>> THEN <<>>
    ELSE IF IsSpace(s[Len(s)]) THEN RStrip(SubSeq(s, 1, Len(s) - 1)) ELSE s

\* (variant: the prompt is used as received)
strip_Identity(s) == s

strip(s) == RStrip(LStrip(s))

\* request bodies: data.get('prompt', ''), data.get('conversation_id', 0)
RawPrompts == {<<>>, <<" ">>, <<"p">>, <<" ", "p">>}
ConvIdInputs == {0, 1, 7}
\* data.get('max_new_tokens', 2048): a positive bound
MaxNewTokenInputs == 1..MaxNewTokens

\* data.get('temperature', 0.6), counted in halves: 0 is 0.0, 1 is 0.5 and
\* 2 is 1.0
TemperatureInputs == {0, 1, 2}

NoRequest == [prompt |-> <<>>, conversation_id |-> 0,
              enable_thinking |-> TRUE, max_new_tokens |-> 0, temperature |-> 0]

\* request.json before any request has arrived
NoBody == [has_data |-> FALSE, prompt |-> <<>>, conversation_id |-> 0]

\* no conversation route has called db_manager yet
NoCall == [op |-> "none"]

\* the sampler has been given no logits yet
NoLogits == <<>>

\* ------------------------------------------------------------ events
\* the JSON payload of one "data: ...\n\n" frame
ThinkingEv(text) == [type |-> "thinking", content |-> text]
ThinkingCompleteEv(text) == [type |-> "thinking_complete", content |-> text]
ResponseEv(text) == [type |-> "response", content |-> text]
ResponseCompleteEv(text) == [type |-> "response_complete", content |-> text]
DoneEv == [type |-> "done"]
\* (variant: the frame carries a fixed text instead of str(e))
ErrorEv_NoMessage(msg) == [error |-> "error"]

ErrorEv(msg) == [error |-> msg]

EventType(e) == IF "type" \in DOMAIN e THEN e.type ELSE "error"

VARIABLES
    model_loaded,      \* _models['text_manager'].model is set
    tokenizer_loaded,  \* manager.tokenizer is set
    conversations,     \* ids of the rows of table conversations
    messages,          \* rows of table messages, in insertion order
    next_conv_id,      \* AUTOINCREMENT counter of table conversations
    pc,                \* per request: control position
    http,              \* per request: HTTP status of the response, 0 = none
    body,              \* per request: request.json as received by chat()
    req,               \* per request: StreamingGenerator constructor arguments
    history,           \* per request: the list handed to apply_chat_template
    input_length,      \* per request: number of prompt ids
    generated_ids,     \* per request: prompt ids + every sampled id
    thinking_buffer,
    response_buffer,
    in_thinking,
    step,              \* per request: loop iterations completed
    forwards,          \* per request: calls of manager.model(generated_ids)
    logits,            \* per request: outputs.logits[:, -1, :] the sampler is given
    events,            \* per request: frames yielded so far, in order
    db_result          \* the last call a conversation route made on db_manager

vars == <<model_loaded, tokenizer_loaded, conversations, messages, next_conv_id,
          pc, http, body, req, history, input_length, generated_ids,
          thinking_buffer, response_buffer, in_thinking, step, forwards, logits,
          events, db_result>>

store == <<conversations, messages, next_conv_id>>
genstate == <<history, input_length, generated_ids, thinking_buffer,
              response_buffer, in_thinking, step, forwards>>

\* --------------------------------------------------------------- store
MessageRow(cid, role, content) ==
    [conversation_id |-> cid, role |-> role, content |-> content]

\* (variant: the query has no WHERE clause)
RowsOf_AllConversations(rows, cid) ==
    [i \in 1..Len(rows) |-> [role |-> rows[i].role, content |-> rows[i].content]]

\* DatabaseManager.get_conversation(id)['messages'], or <<>> when the
\* conversation row is missing (get_conversation returns None)
RECURSIVE RowsOf(_, _)
RowsOf(rows, cid) ==
    IF rows = <<>> THEN <<>>
    ELSE (IF Head(rows).conversation_id = cid
          THEN <<[role |-> Head(rows).role, content |-> Head(rows).content]>>
          ELSE <<>>) \o RowsOf(Tail(rows), cid)

\* (variant: the history is never read)
get_conversation_messages_Empty(cid) == <<>>

\* StreamingGenerator._get_conversation_messages
get_conversation_messages(cid) ==
    IF cid <= 0 THEN <<>>
    ELSE IF cid \notin conversations THEN <<>>
    ELSE RowsOf(messages, cid)

\* (variant: the two texts are joined without the blank line)
SaveContent_NoSeparator(thinking, response) == thinking \o response

\* StreamingGenerator._save_message: the text written as the assistant turn
SaveContent(thinking, response) ==
    IF thinking # <<>>
    THEN (IF response # <<>> THEN thinking \o <<"\n", "\n">> \o response
          ELSE thinking)
    ELSE response

\* "decode(buffer) if buffer else ''"
FinalText(buffer) == IF buffer # <<>> THEN decode(buffer) ELSE <<>>

\* ------------------------------------------------------ loop predicates
\* in_thinking = True
InitialInThinking(enable_thinking) == TRUE

\* (variant: the end-of-text id is taken for the end-of-sequence id)
IsEOS_WrongId(token_id) == token_id \in PadIds

\* if token_id == self.manager.tokenizer.eos_token_id
IsEOS(token_id) == token_id = eos_token_id

\* (variant: the marker test uses the id of <think> instead of </think>)
IsThinkingEnd_WrongId(token_id, in_th) == token_id = thinking_token_id - 1 /\ in_th

\* (variant: the marker test ignores the phase)
IsThinkingEnd_AnyPhase(token_id, in_th) == token_id = thinking_token_id

\* if token_id == self.thinking_token_id and in_thinking
IsThinkingEnd(token_id, in_th) == token_id = thinking_token_id /\ in_th

\* (variant: no emission for the first token)
ThinkingCadence_NoFirst(buffer, st) == Len(buffer) % 5 = 0

\* if len(thinking_buffer) % 5 == 0 or step == 0
ThinkingCadence(buffer, st) == Len(buffer) % 5 = 0 \/ st = 0

\* if len(response_buffer) % 3 == 0 or step == 0
ResponseCadence(buffer, st) == Len(buffer) % 3 = 0 \/ st = 0

\* (variant: the loop bound is off by one)
LoopHasNext_OffByOne(st, max_new_tokens) == st <= max_new_tokens

\* for step in range(self.max_new_tokens): is there an iteration number st
LoopHasNext(st, max_new_tokens) == st < max_new_tokens

\* -------------------------------------------------------------- Init
\* the messages table when the server starts: one stored exchange of
\* conversation 1
InitialMessages == <<MessageRow(1, "user", <<"q">>),
                     MessageRow(1, "assistant", <<"a">>)>>

Init ==
    /\ model_loaded \in BOOLEAN
    /\ tokenizer_loaded \in BOOLEAN
    /\ conversations = {1}
    /\ messages = InitialMessages
    /\ next_conv_id = 2
    /\ pc = [r \in Reqs |-> IF r = 1 THEN "idle" ELSE "absent"]
    /\ http = [r \in Reqs |-> 0]
    /\ body = [r \in Reqs |-> NoBody]
    /\ req = [r \in Reqs |-> NoRequest]
    /\ history = [r \in Reqs |-> <<>>]
    /\ input_length = [r \in Reqs |-> 0]
    /\ generated_ids = [r \in Reqs |-> <<>>]
    /\ thinking_buffer = [r \in Reqs |-> <<>>]
    /\ response_buffer = [r \in Reqs |-> <<>>]
    /\ in_thinking = [r \in Reqs |-> TRUE]
    /\ step = [r \in Reqs |-> 0]
    /\ forwards = [r \in Reqs |-> 0]
    /\ logits = [r \in Reqs |-> NoLogits]
    /\ events = [r \in Reqs |-> <<>>]
    /\ db_result = NoCall

\* ------------------------------------------------------------- actions
\* chat(): the whole /api/chat handler up to returning the Response
Chat(r) ==
    /\ pc[r] = "idle"
    /\ \E has_data \in BOOLEAN, raw \in RawPrompts, cid \in ConvIdInputs,
          et \in BOOLEAN, mnt \in MaxNewTokenInputs, temp \in TemperatureInputs :
        LET prompt == strip(raw)
            new_id == IF cid <= 0 THEN next_conv_id ELSE cid
        IN  /\ body' = [body EXCEPT ![r] = [has_data |-> has_data, prompt |-> raw,
                                            conversation_id |-> cid]]
            /\ IF ~has_data \/ prompt = <<>>
               THEN /\ http' = [http EXCEPT ![r] = 400]
                    /\ pc' = [pc EXCEPT ![r] = "rejected"]
                    /\ UNCHANGED <<store, req>>
               ELSE /\ conversations' = IF cid <= 0
                                        THEN conversations \cup {next_conv_id}
                                        ELSE conversations
                    /\ next_conv_id' = IF cid <= 0 THEN next_conv_id + 1
                                       ELSE next_conv_id
                    /\ messages' = Append(messages,
                                          MessageRow(new_id, "user", prompt))
                    /\ IF model_loaded
                       THEN /\ http' = [http EXCEPT ![r] = 200]
                            /\ pc' = [pc EXCEPT ![r] = "stream"]
                            /\ req' = [req EXCEPT ![r] =
                                   [prompt |-> prompt, conversation_id |-> new_id,
                                    enable_thinking |-> et, max_new_tokens |-> mnt,
                                    temperature |-> temp]]
                       ELSE /\ http' = [http EXCEPT ![r] = 503]
                            /\ pc' = [pc EXCEPT ![r] = "rejected"]
                            /\ UNCHANGED req
    /\ UNCHANGED <<db_result, model_loaded, tokenizer_loaded, genstate, logits, events>>

\* (variant: the handler stores what was generated before it reports the error)
Except_PartialSave(r, emitted, msg) ==
    /\ events' = [events EXCEPT ![r] = Append(emitted, ErrorEv(msg))]
    /\ pc' = [pc EXCEPT ![r] = "failed"]
    /\ messages' = Append(messages,
                          MessageRow(req[r].conversation_id, "assistant",
                                     SaveContent(FinalText(thinking_buffer[r]),
                                                 FinalText(response_buffer[r]))))

\* "except Exception as e: yield {'error': str(e), ...}": emitted is the
\* request's event stream at the raise, msg is str(e); nothing is stored
Except(r, emitted, msg) ==
    /\ events' = [events EXCEPT ![r] = Append(emitted, ErrorEv(msg))]
    /\ pc' = [pc EXCEPT ![r] = "failed"]
    /\ UNCHANGED messages

\* (variant: the generator starts unless both the model and the tokenizer
\* are missing)
ModelUnavailable_BothMissing(model, tokenizer) == ~model /\ ~tokenizer

\* if not self.manager.model or not self.manager.tokenizer
ModelUnavailable(model, tokenizer) == ~model \/ ~tokenizer

\* generate_stream() from its first line to the head of the for loop
GenStart(r) ==
    /\ pc[r] = "stream"
    /\ IF ModelUnavailable(model_loaded, tokenizer_loaded)
       THEN /\ events' = [events EXCEPT ![r] = Append(@, ErrorEv("Model not loaded"))]
            /\ pc' = [pc EXCEPT ![r] = "failed"]
            /\ UNCHANGED <<genstate, messages>>
       ELSE \E raises \in BOOLEAN :
            IF raises
            THEN /\ Except(r, events[r], "setup failed")
                 /\ UNCHANGED genstate
            ELSE LET msgs == Append(get_conversation_messages(req[r].conversation_id),
                                    [role |-> "user", content |-> req[r].prompt])
                     ids == apply_chat_template(msgs, req[r].enable_thinking)
                 IN  /\ history' = [history EXCEPT ![r] = msgs]
                     /\ input_length' = [input_length EXCEPT ![r] = Len(ids)]
                     /\ generated_ids' = [generated_ids EXCEPT ![r] = ids]
                     /\ thinking_buffer' = [thinking_buffer EXCEPT ![r] = <<>>]
                     /\ response_buffer' = [response_buffer EXCEPT ![r] = <<>>]
                     /\ in_thinking' = [in_thinking EXCEPT ![r] =
                                            InitialInThinking(req[r].enable_thinking)]
                     /\ step' = [step EXCEPT ![r] = 0]
                     /\ forwards' = [forwards EXCEPT ![r] = 0]
                     /\ pc' = [pc EXCEPT ![r] =
                                 IF LoopHasNext(0, req[r].max_new_tokens)
                                 THEN "loop" ELSE "finalize"]
                     /\ UNCHANGED <<events, messages>>
    /\ UNCHANGED <<db_result, model_loaded, tokenizer_loaded, conversations, next_conv_id, logits,
                   http, body, req>>

\* (variant: the branch condition is inverted)
BufferPhase_Inverted(in_th) == ~in_th

\* "if in_thinking: thinking_buffer.append(...) else: response_buffer.append(...)"
BufferPhase(in_th) == in_th

\* the body of "for step in range(self.max_new_tokens)" for the sampled
\* token_id: forward pass, append to generated_ids, EOS / thinking-end /
\* buffer append.
\* raise = "forward": the forward pass (or the sampling on its logits) raises;
\* "debug": the [DEBUG] decode of the sampled token raises; "decode": the
\* decode before a yield raises; passes is the number of forward passes run
Iteration(r, token_id, raise, passes) ==
    /\ LET th == in_thinking[r]
            eos == IsEOS(token_id)
            tend == ~eos /\ IsThinkingEnd(token_id, th)
            toThinking == ~eos /\ ~tend /\ BufferPhase(th)
            toResponse == ~eos /\ ~tend /\ ~BufferPhase(th)
            tb == IF toThinking THEN Append(thinking_buffer[r], token_id)
                  ELSE thinking_buffer[r]
            rb == IF toResponse THEN Append(response_buffer[r], token_id)
                  ELSE response_buffer[r]
            emitT == toThinking /\ ThinkingCadence(tb, step[r])
            emitR == toResponse /\ ResponseCadence(rb, step[r])
            decodes == tend \/ emitT \/ emitR
            ev == IF eos THEN <<DoneEv>>
                  ELSE IF tend THEN <<ThinkingCompleteEv(decode(thinking_buffer[r]))>>
                  ELSE IF emitT THEN <<ThinkingEv(decode(tb))>>
                  ELSE IF emitR THEN <<ResponseEv(decode(rb))>>
                  ELSE <<>>
        IN  /\ raise = "debug" => step[r] < DebugSteps
            /\ raise = "decode" => decodes
            /\ forwards' = [forwards EXCEPT ![r] = @ + passes]
            /\ IF raise = "forward"
               THEN /\ Except(r, events[r], "forward failed")
                    /\ UNCHANGED <<generated_ids, thinking_buffer,
                                   response_buffer, in_thinking, step>>
               ELSE /\ generated_ids' = [generated_ids EXCEPT ![r] = Append(@, token_id)]
                    /\ IF raise = "debug"
                       THEN /\ Except(r, events[r], "decode failed")
                            /\ UNCHANGED <<thinking_buffer, response_buffer,
                                           in_thinking, step>>
                       ELSE /\ in_thinking' = [in_thinking EXCEPT ![r] =
                                                   IF tend THEN FALSE ELSE th]
                            /\ thinking_buffer' = [thinking_buffer EXCEPT ![r] = tb]
                            /\ response_buffer' = [response_buffer EXCEPT ![r] = rb]
                            /\ IF raise = "decode"
                               THEN /\ Except(r, events[r], "decode failed")
                                    /\ UNCHANGED step
                               ELSE /\ events' = [events EXCEPT ![r] = @ \o ev]
                                    /\ step' = [step EXCEPT ![r] = @ + 1]
                                    /\ pc' = [pc EXCEPT ![r] =
                                         IF eos THEN "finalize"
                                         ELSE IF LoopHasNext(step[r] + 1,
                                                             req[r].max_new_tokens)
                                         THEN "loop" ELSE "finalize"]
                                    /\ UNCHANGED messages
    /\ UNCHANGED <<db_result, model_loaded, tokenizer_loaded, conversations, next_conv_id,
                   http, body, req, history, input_length>>

\* one loop iteration; the sampler is any choice of an id of the vocabulary
LoopStep(r) ==
    /\ pc[r] = "loop"
    /\ \E token_id \in Vocab, raise \in {"none", "forward", "debug", "decode"} :
           Iteration(r, token_id, raise, 1)
    /\ UNCHANGED logits

\* (variant: the first yield does not test in_thinking)
FinalizeEvents_IgnorePhase(in_th, tbuf, rbuf) ==
    (IF tbuf # <<>> THEN <<ThinkingCompleteEv(decode(tbuf))>> ELSE <<>>)
    \o (IF rbuf # <<>> THEN <<ResponseCompleteEv(decode(rbuf))>> ELSE <<>>)

\* "# Finalize - decode remaining tokens": the two conditional yields after
\* the loop
FinalizeEvents(in_th, tbuf, rbuf) ==
    (IF in_th /\ tbuf # <<>> THEN <<ThinkingCompleteEv(decode(tbuf))>> ELSE <<>>)
    \o (IF rbuf # <<>> THEN <<ResponseCompleteEv(decode(rbuf))>> ELSE <<>>)

Finalize(r) ==
    /\ pc[r] = "finalize"
    /\ \E raise \in {"none", "first", "second"} :
        LET first == in_thinking[r] /\ thinking_buffer[r] # <<>>
            second == response_buffer[r] # <<>>
        IN  /\ raise = "first" => first
            /\ raise = "second" => second
            /\ IF raise = "none"
               THEN /\ events' = [events EXCEPT ![r] =
                          @ \o FinalizeEvents(in_thinking[r], thinking_buffer[r],
                                              response_buffer[r])]
                    /\ pc' = [pc EXCEPT ![r] = "save"]
                    /\ UNCHANGED messages
               ELSE Except(r,
                           IF raise = "second"
                           THEN events[r] \o FinalizeEvents(in_thinking[r],
                                                            thinking_buffer[r], <<>>)
                           ELSE events[r],
                           "decode failed")
    /\ UNCHANGED <<db_result, model_loaded, tokenizer_loaded, conversations, next_conv_id, logits,
                   http, body, req, genstate>>

\* (variant: the guard is off by one)
ShouldSave_OffByOne(conversation_id) == conversation_id > 1

\* _save_message: "if self.conversation_id <= 0: return"
ShouldSave(conversation_id) == ~(conversation_id <= 0)

\* "# Save to database": final decodes and _save_message
Save(r) ==
    /\ pc[r] = "save"
    /\ \E raises \in BOOLEAN :
        IF raises
        THEN Except(r, events[r], "save failed")
        ELSE /\ messages' =
                   IF ShouldSave(req[r].conversation_id)
                   THEN Append(messages,
                               MessageRow(req[r].conversation_id, "assistant",
                                          SaveContent(FinalText(thinking_buffer[r]),
                                                      FinalText(response_buffer[r]))))
                   ELSE messages
             /\ pc' = [pc EXCEPT ![r] = "returned"]
             /\ UNCHANGED events
    /\ UNCHANGED <<db_result, model_loaded, tokenizer_loaded, conversations, next_conv_id, logits,
                   http, body, req, genstate>>

\* ------------------------------------------------------------- sampler
\* a logit is a finite float, NaN, +inf or -inf; the finite value v weighs
\* 2^v in the softmax
Fin(v) == [k |-> "fin", v |-> v]
NaN == [k |-> "nan", v |-> 0]
PosInf == [k |-> "inf", v |-> 1]
NegInf == [k |-> "inf", v |-> -1]

isnan(x) == x.k = "nan"
isinf(x) == x.k = "inf"

\* float comparison a < b: false when either side is NaN
Lt(a, b) ==
    /\ ~isnan(a)
    /\ ~isnan(b)
    /\ IF isinf(a) THEN a = NegInf /\ b # NegInf
       ELSE IF isinf(b) THEN b = PosInf
       ELSE a.v < b.v

\* outputs.logits[:, -1, :] of one forward pass: one logit per vocabulary id
LogitValues == {NaN, PosInf, NegInf, Fin(0), Fin(1), Fin(2)}
LogitVectors == [Vocab -> LogitValues]

\* torch.clamp(x, min=lo, max=hi) on one element: NaN stays NaN
clamp(x, lo, hi) ==
    IF isnan(x) THEN x
    ELSE IF Lt(x, Fin(lo)) THEN Fin(lo)
    ELSE IF Lt(Fin(hi), x) THEN Fin(hi)
    ELSE x

\* "if torch.isnan(logits).any() or torch.isinf(logits).any(): clamp"
Clamped(lg) ==
    IF \E i \in DOMAIN lg : isnan(lg[i]) \/ isinf(lg[i])
    THEN [i \in DOMAIN lg |-> clamp(lg[i], -ClampBound, ClampBound)]
    ELSE lg

\* "if self.temperature > 0 and self.temperature != 1.0: logits / temperature"
\* (temperature in halves: 2 is 1.0)
Scaled(lg, temperature) ==
    IF temperature > 0 /\ temperature # 2
    THEN [i \in DOMAIN lg |->
              IF lg[i].k = "fin" THEN Fin((2 * lg[i].v) \div temperature)
              ELSE lg[i]]
    ELSE lg

\* a precedes b in torch.topk and in torch.sort(descending=True): NaN is
\* ordered above every number
Before(a, b) == IF isnan(a) THEN ~isnan(b) ELSE Lt(b, a)

\* torch.topk(logits, k)[0][..., -1]: the k-th largest value
KthLargest(lg, k) ==
    CHOOSE x \in {lg[i] : i \in DOMAIN lg} :
        /\ Cardinality({i \in DOMAIN lg : Before(lg[i], x)}) < k
        /\ Cardinality({i \in DOMAIN lg : Before(lg[i], x) \/ lg[i] = x}) >= k

\* "# Apply top-k filtering"
TopKFiltered(lg, k) ==
    IF k > 0
    THEN [i \in DOMAIN lg |-> IF Lt(lg[i], KthLargest(lg, k)) THEN NegInf ELSE lg[i]]
    ELSE lg

\* the index orders torch.sort(logits, descending=True) can return (equal
\* values come in any order)
DescendingOrders(lg) ==
    {perm \in [1..Cardinality(DOMAIN lg) -> DOMAIN lg] :
        /\ \A i, j \in DOMAIN perm : i # j => perm[i] # perm[j]
        /\ \A j \in 1..(Len(perm) - 1) : ~Before(lg[perm[j + 1]], lg[perm[j]])}

\* torch.softmax yields NaN everywhere: a NaN or +inf input, or nothing but -inf
SoftmaxIsNaN(lg) ==
    \/ \E i \in DOMAIN lg : isnan(lg[i]) \/ lg[i] = PosInf
    \/ \A i \in DOMAIN lg : lg[i] = NegInf

RECURSIVE Pow2(_)
Pow2(n) == IF n <= 0 THEN 1 ELSE 2 * Pow2(n - 1)

\* numerator of the softmax probability of x; lowest is the smallest finite logit
Weight(x, lowest) == IF x = NegInf THEN 0 ELSE Pow2(x.v - lowest)

\* cumulative_probs[j] * total, for the sorted order perm
RECURSIVE CumWeight(_, _, _, _)
CumWeight(lg, perm, lowest, j) ==
    IF j = 0 THEN 0
    ELSE Weight(lg[perm[j]], lowest) + CumWeight(lg, perm, lowest, j - 1)

\* "top_p = 0.95 if self.enable_thinking else 0.8", in twentieths
top_p(enable_thinking) == IF enable_thinking THEN 19 ELSE 16

\* "# Apply top-p (nucleus) filtering": p20 is top_p in twentieths, perm the
\* order torch.sort returned; a comparison with a NaN probability is false
TopPFiltered(lg, perm, p20) ==
    IF p20 < 20 /\ ~SoftmaxIsNaN(lg)
    THEN LET lowest == CHOOSE m \in {lg[i].v : i \in {h \in DOMAIN lg : lg[h].k = "fin"}} :
                           \A i \in DOMAIN lg : lg[i].k = "fin" => m <= lg[i].v
             total == CumWeight(lg, perm, lowest, Len(perm))
             above(j) == CumWeight(lg, perm, lowest, j) * 20 > p20 * total
             removed == {perm[j] : j \in {h \in 2..Len(perm) : above(h - 1)}}
         IN  [i \in DOMAIN lg |-> IF i \in removed THEN NegInf ELSE lg[i]]
    ELSE lg

\* "# Safety check: ensure at least one logit is not -inf"
AllFiltered(lg) == \A i \in DOMAIN lg : lg[i] = NegInf

\* str(e) of the RuntimeError torch.multinomial raises on NaN probabilities
MultinomialError == "probability tensor contains either inf, nan or element < 0"

\* lines 80-117 for the logits lg of the forward pass: whether multinomial
\* raises, the ids it can return, and the number of forward passes run
sample(lg, temperature, enable_thinking, perm) ==
    LET filtered == TopPFiltered(TopKFiltered(Scaled(Clamped(lg), temperature), top_k),
                                 perm, top_p(enable_thinking))
        final == IF AllFiltered(filtered) THEN Scaled(lg, temperature) ELSE filtered
    IN  [raises |-> SoftmaxIsNaN(final),
         support |-> IF SoftmaxIsNaN(final) THEN {}
                     ELSE {i \in DOMAIN final : final[i] # NegInf},
         passes |-> IF AllFiltered(filtered) THEN 2 ELSE 1]

\* one loop iteration in which the forward pass returned logits[r]
SampleStep(r) ==
    /\ pc[r] = "loop"
    /\ logits[r] # NoLogits
    /\ \E perm \in DescendingOrders(TopKFiltered(Scaled(Clamped(logits[r]),
                                                        req[r].temperature), top_k)) :
        LET out == sample(logits[r], req[r].temperature, req[r].enable_thinking, perm)
        IN  IF out.raises
            THEN /\ Except(r, events[r], MultinomialError)
                 /\ forwards' = [forwards EXCEPT ![r] = @ + out.passes]
                 /\ UNCHANGED <<db_result, model_loaded, tokenizer_loaded, conversations,
                                next_conv_id, http, body, req, history, input_length,
                                generated_ids, thinking_buffer, response_buffer,
                                in_thinking, step>>
            ELSE \E token_id \in out.support, raise \in {"none", "debug", "decode"} :
                     Iteration(r, token_id, raise, out.passes)
    /\ IF pc'[r] = "loop"
       THEN \E next \in LogitVectors : logits' = [logits EXCEPT ![r] = next]
       ELSE UNCHANGED logits


Next ==
    \E r \in Reqs :
        \/ Chat(r)
        \/ GenStart(r)
        \/ LoopStep(r)
        \/ Finalize(r)
        \/ Save(r)

Spec == Init /\ [][Next]_vars

\* ------------------------------------------- two simultaneous requests
\* app.run(..., threaded=True): requests 1 and 2 are served by two threads;
\* the model and the tokenizer are loaded
InitConc ==
    /\ model_loaded = TRUE
    /\ tokenizer_loaded = TRUE
    /\ conversations = {1}
    /\ messages = InitialMessages
    /\ next_conv_id = 2
    /\ pc = [r \in Reqs |-> IF r \in {1, 2} THEN "idle" ELSE "absent"]
    /\ http = [r \in Reqs |-> 0]
    /\ body = [r \in Reqs |-> NoBody]
    /\ req = [r \in Reqs |-> NoRequest]
    /\ history = [r \in Reqs |-> <<>>]
    /\ input_length = [r \in Reqs |-> 0]
    /\ generated_ids = [r \in Reqs |-> <<>>]
    /\ thinking_buffer = [r \in Reqs |-> <<>>]
    /\ response_buffer = [r \in Reqs |-> <<>>]
    /\ in_thinking = [r \in Reqs |-> TRUE]
    /\ step = [r \in Reqs |-> 0]
    /\ forwards = [r \in Reqs |-> 0]
    /\ logits = [r \in Reqs |-> NoLogits]
    /\ events = [r \in Reqs |-> <<>>]
    /\ db_result = NoCall

\* chat() for a well-formed request with a short generation
ChatConc(r) ==
    /\ Chat(r)
    /\ body'[r].has_data
    /\ body'[r].prompt = <<"p">>
    /\ req'[r].enable_thinking
    /\ req'[r].temperature = 2
    /\ req'[r].max_new_tokens \in 1..MaxNewTokensConc

NextConc ==
    \E r \in Reqs :
        \/ ChatConc(r)
        \/ GenStart(r)
        \/ LoopStep(r)
        \/ Finalize(r)
        \/ Save(r)

SpecConc == InitConc /\ [][NextConc]_vars

\* ----------------------------------------------- the sampler on its own
\* request 1 asked for one token on a new conversation; generate_stream has
\* reached the loop and the forward pass has returned some logits vector
InitSampler ==
    /\ model_loaded = TRUE
    /\ tokenizer_loaded = TRUE
    /\ conversations = {1, 2}
    /\ messages = Append(InitialMessages, MessageRow(2, "user", <<"p">>))
    /\ next_conv_id = 3
    /\ pc = [r \in Reqs |-> IF r = 1 THEN "loop" ELSE "absent"]
    /\ http = [r \in Reqs |-> IF r = 1 THEN 200 ELSE 0]
    /\ body = [r \in Reqs |-> IF r = 1
                               THEN [has_data |-> TRUE, prompt |-> <<"p">>,
                                     conversation_id |-> 0]
                               ELSE NoBody]
    /\ \E et \in BOOLEAN, temp \in TemperatureInputs :
        /\ req = [r \in Reqs |-> IF r = 1
                                  THEN [prompt |-> <<"p">>, conversation_id |-> 2,
                                        enable_thinking |-> et, max_new_tokens |-> 1,
                                        temperature |-> temp]
                                  ELSE NoRequest]
        /\ LET msgs == <<[role |-> "user", content |-> <<"p">>],
                         [role |-> "user", content |-> <<"p">>]>>
               ids == apply_chat_template(msgs, et)
           IN  /\ history = [r \in Reqs |-> IF r = 1 THEN msgs ELSE <<>>]
               /\ input_length = [r \in Reqs |-> IF r = 1 THEN Len(ids) ELSE 0]
               /\ generated_ids = [r \in Reqs |-> IF r = 1 THEN ids ELSE <<>>]
    /\ thinking_buffer = [r \in Reqs |-> <<>>]
    /\ response_buffer = [r \in Reqs |-> <<>>]
    /\ in_thinking = [r \in Reqs |-> TRUE]
    /\ step = [r \in Reqs |-> 0]
    /\ forwards = [r \in Reqs |-> 0]
    /\ \E lg \in LogitVectors : logits = [r \in Reqs |-> IF r = 1 THEN lg ELSE NoLogits]
    /\ events = [r \in Reqs |-> <<>>]
    /\ db_result = NoCall

NextSampler ==
    \E r \in Reqs :
        \/ SampleStep(r)
        \/ Finalize(r)
        \/ Save(r)

SpecSampler == InitSampler /\ [][NextSampler]_vars

\* ------------------------------------------- the conversation routes
\* sqlite3.connect(self.db_path) with no "PRAGMA foreign_keys = ON": SQLite
\* does not enforce foreign keys on the connection, so ON DELETE CASCADE is
\* inert
foreign_keys == FALSE

\* ids the routes are called with: existing, deleted and never created ones
StoreIdInputs == ConvIdInputs \cup (1..MaxStoreConversations)

generator_idle ==
    UNCHANGED <<model_loaded, tokenizer_loaded, pc, http, body, req, genstate,
                logits, events>>

\* DatabaseManager.create_conversation
create_conversation ==
    /\ next_conv_id <= MaxStoreConversations
    /\ conversations' = conversations \cup {next_conv_id}
    /\ next_conv_id' = next_conv_id + 1
    /\ db_result' = [op |-> "create_conversation", id |-> next_conv_id]
    /\ UNCHANGED messages
    /\ generator_idle

\* DatabaseManager.save_message
save_message(conversation_id, role, content) ==
    /\ Len(messages) < MaxStoreRows
    /\ messages' = Append(messages, MessageRow(conversation_id, role, content))
    /\ db_result' = [op |-> "save_message", id |-> conversation_id]
    /\ UNCHANGED <<conversations, next_conv_id>>
    /\ generator_idle

\* DatabaseManager.get_conversation: None when the conversation row is missing
get_conversation(conversation_id) ==
    /\ db_result' = [op |-> "get_conversation", id |-> conversation_id,
                     found |-> conversation_id \in conversations,
                     messages |-> IF conversation_id \in conversations
                                  THEN RowsOf(messages, conversation_id)
                                  ELSE <<>>]
    /\ UNCHANGED store
    /\ generator_idle

\* DatabaseManager.delete_conversation: "DELETE FROM conversations WHERE
\* id = ?", deleted = rowcount > 0
delete_conversation(conversation_id) ==
    /\ conversations' = conversations \ {conversation_id}
    /\ messages' = IF foreign_keys /\ conversation_id \in conversations
                   THEN SelectSeq(messages,
                                  LAMBDA m : m.conversation_id # conversation_id)
                   ELSE messages
    /\ db_result' = [op |-> "delete_conversation", id |-> conversation_id,
                     deleted |-> conversation_id \in conversations]
    /\ UNCHANGED next_conv_id
    /\ generator_idle

\* no chat request is in flight; the routes of conversations.py are called
InitStore ==
    /\ model_loaded \in BOOLEAN
    /\ tokenizer_loaded \in BOOLEAN
    /\ conversations = {1}
    /\ messages = InitialMessages
    /\ next_conv_id = 2
    /\ pc = [r \in Reqs |-> "absent"]
    /\ http = [r \in Reqs |-> 0]
    /\ body = [r \in Reqs |-> NoBody]
    /\ req = [r \in Reqs |-> NoRequest]
    /\ history = [r \in Reqs |-> <<>>]
    /\ input_length = [r \in Reqs |-> 0]
    /\ generated_ids = [r \in Reqs |-> <<>>]
    /\ thinking_buffer = [r \in Reqs |-> <<>>]
    /\ response_buffer = [r \in Reqs |-> <<>>]
    /\ in_thinking = [r \in Reqs |-> TRUE]
    /\ step = [r \in Reqs |-> 0]
    /\ forwards = [r \in Reqs |-> 0]
    /\ logits = [r \in Reqs |-> NoLogits]
    /\ events = [r \in Reqs |-> <<>>]
    /\ db_result = NoCall

NextStore ==
    \/ create_conversation
    \/ \E id \in StoreIdInputs, role \in {"user", "assistant"} :
           save_message(id, role, <<"p">>)
    \/ \E id \in StoreIdInputs : get_conversation(id)
    \/ \E id \in StoreIdInputs : delete_conversation(id)

SpecStore == InitStore /\ [][NextStore]_vars

\* ------------------------------------------------------------ properties
Elems(seq) == {seq[i] : i \in 1..Len(seq)}
Last(seq) == seq[Len(seq)]
Count(x, seq) == Cardinality({i \in 1..Len(seq) : seq[i] = x})

\* the ids sampled so far: generated_ids without the prompt ids
Sampled(r) == SubSeq(generated_ids[r], input_length[r] + 1, Len(generated_ids[r]))

EventTypes(r) == {EventType(events[r][i]) : i \in 1..Len(events[r])}
CountType(r, t) == Cardinality({i \in 1..Len(events[r]) : EventType(events[r][i]) = t})
IsTerminal(e) == EventType(e) \in {"done", "error"}

\* the generator has run to its end (normally or through the except clause)
Completed(r) == pc[r] \in {"returned", "failed"}
\* the generator is past its set-up and has not raised
Generating(r) == pc[r] \in {"loop", "finalize", "save", "returned"}
\* r has just executed a loop iteration that sampled a token and did not raise
Sampling(r) ==
    /\ pc[r] = "loop"
    /\ Len(generated_ids'[r]) = Len(generated_ids[r]) + 1
    /\ pc'[r] # "failed"

\* C1: every completed run of generate_stream has exactly one terminal event
\* (Done or Error) in its event stream, and that event is the last one.
C1_OneTerminalEventLast ==
    \A r \in Reqs :
        Completed(r) =>
            /\ Cardinality({i \in 1..Len(events[r]) : IsTerminal(events[r][i])}) = 1
            /\ IsTerminal(Last(events[r]))

\* C2: with thinking disabled the generation starts in the Responding phase,
\* the thinking buffer stays empty, no Thinking / ThinkingComplete event is
\* emitted and the persisted assistant text is the decode of the response
\* buffer alone.
C2_ThinkingDisabledStartsResponding ==
    \A r \in Reqs :
        (Generating(r) /\ ~req[r].enable_thinking) =>
            /\ (pc[r] = "loop" /\ step[r] = 0) => ~in_thinking[r]
            /\ thinking_buffer[r] = <<>>
            /\ EventTypes(r) \cap {"thinking", "thinking_complete"} = {}
            /\ pc[r] = "returned" =>
                   Last(messages) = MessageRow(req[r].conversation_id, "assistant",
                                               decode(response_buffer[r]))

\* C3: a step that samples EOS emits Done and leaves the loop without touching
\* either buffer; neither buffer ever holds the EOS id; once Done has been
\* emitted there is no further forward pass and no further sampled token.
C3_EOSEmitsDoneAndStops ==
    /\ [](\A r \in Reqs :
            eos_token_id \notin Elems(thinking_buffer[r]) \cup Elems(response_buffer[r]))
    /\ [][\A r \in Reqs :
            (Sampling(r) /\ Last(generated_ids'[r]) = eos_token_id) =>
                /\ events'[r] = Append(events[r], DoneEv)
                /\ pc'[r] = "finalize"
                /\ thinking_buffer'[r] = thinking_buffer[r]
                /\ response_buffer'[r] = response_buffer[r]]_vars
    /\ [][\A r \in Reqs :
            DoneEv \in Elems(events[r]) =>
                /\ forwards'[r] = forwards[r]
                /\ generated_ids'[r] = generated_ids[r]]_vars

C3_Witness ==
    \E r \in Reqs :
        /\ pc[r] = "returned"
        /\ Last(Sampled(r)) = eos_token_id
        /\ DoneEv \in Elems(events[r])
        /\ thinking_buffer[r] # <<>>
        /\ response_buffer[r] # <<>>

\* C4: a step in the Thinking phase that samples the thinking-end marker
\* switches the phase to Responding, emits exactly one ThinkingComplete with
\* the decode of the whole thinking buffer, changes neither buffer, and goes on
\* to the next loop iteration (if the step limit leaves one).
C4_ThinkingEndTransition ==
    [][\A r \in Reqs :
        (Sampling(r) /\ in_thinking[r] /\ Last(generated_ids'[r]) = thinking_token_id) =>
            /\ in_thinking'[r] = FALSE
            /\ events'[r] = Append(events[r],
                                   ThinkingCompleteEv(decode(thinking_buffer[r])))
            /\ thinking_buffer'[r] = thinking_buffer[r]
            /\ response_buffer'[r] = response_buffer[r]
            /\ step'[r] = step[r] + 1
            /\ pc'[r] = IF step'[r] < req[r].max_new_tokens THEN "loop"
                        ELSE "finalize"]_vars

C4_Witness ==
    \E r \in Reqs :
        /\ pc[r] = "loop"
        /\ ~in_thinking[r]
        /\ Len(thinking_buffer[r]) = 2
        /\ response_buffer[r] = <<>>
        /\ Last(Sampled(r)) = thinking_token_id
        /\ Last(events[r]) = ThinkingCompleteEv(decode(thinking_buffer[r]))

\* C5 (as claimed): the thinking-end marker id is never an element of the
\* thinking buffer or of the response buffer.
C5_MarkerNeverInBuffers ==
    \A r \in Reqs :
        thinking_token_id \notin
            Elems(thinking_buffer[r]) \cup Elems(response_buffer[r])

\* C5 (amended): the thinking-end marker id is never an element of the thinking
\* buffer, and the marker that ends the Thinking phase goes to neither buffer;
\* a marker id sampled in the Responding phase is appended to the response
\* buffer, so the response buffer holds exactly the markers sampled after the
\* first one.
C5_MarkerOnlyAfterTransition ==
    \A r \in Reqs :
        LET ended == IF in_thinking[r] THEN 0 ELSE 1
        IN  /\ thinking_token_id \notin Elems(thinking_buffer[r])
            /\ Count(thinking_token_id, response_buffer[r]) + ended
                   <= Count(thinking_token_id, Sampled(r))
            /\ pc[r] # "failed" =>
                   Count(thinking_token_id, response_buffer[r]) + ended
                       = Count(thinking_token_id, Sampled(r))

C5_Witness ==
    \E r \in Reqs :
        /\ Count(thinking_token_id, Sampled(r)) = 2
        /\ Count(thinking_token_id, response_buffer[r]) = 1
        /\ thinking_buffer[r] # <<>>

\* C6: for the sampled stream [a, b, thinking_end, c, d, eos] with thinking
\* enabled the events are: Thinking(a), ThinkingComplete(a b), the Response
\* partials the cadence prescribes for c, d, ResponseComplete if finalization
\* runs, and Done as the last event.
C6_PhaseTransitionScenario ==
    \A r \in Reqs :
        LET s == Sampled(r)
            plain == OrdinaryIds \cup PadIds
        IN  (/\ pc[r] = "returned"
             /\ req[r].enable_thinking
             /\ Len(s) = 6
             /\ {s[1], s[2], s[4], s[5]} \subseteq plain
             /\ s[3] = thinking_token_id
             /\ s[6] = eos_token_id) =>
            \E partial \in {<<>>, <<ResponseEv(decode(<<s[4]>>))>>},
               complete \in {<<>>, <<ResponseCompleteEv(decode(<<s[4], s[5]>>))>>} :
                events[r] = <<ThinkingEv(decode(<<s[1]>>)),
                              ThinkingCompleteEv(decode(<<s[1], s[2]>>))>>
                            \o partial \o complete \o <<DoneEv>>

\* C7: right after a token is appended to the response buffer, a Response
\* partial with the decode of the whole response buffer is emitted if and only
\* if the token is the first response token or the buffer length is a multiple
\* of 3.
C7_ResponseCadence ==
    [][\A r \in Reqs :
        (Sampling(r) /\ response_buffer'[r] # response_buffer[r]) =>
            LET n == Len(response_buffer'[r])
            IN  IF n = 1 \/ n % 3 = 0
                THEN events'[r] = Append(events[r],
                                         ResponseEv(decode(response_buffer'[r])))
                ELSE events'[r] = events[r]]_vars

\* C8: right after a token is appended to the thinking buffer, a Thinking
\* partial with the decode of the whole thinking buffer is emitted if and only
\* if the token is the first thinking token or the buffer length is a multiple
\* of 5.
C8_ThinkingCadence ==
    [][\A r \in Reqs :
        (Sampling(r) /\ thinking_buffer'[r] # thinking_buffer[r]) =>
            LET n == Len(thinking_buffer'[r])
            IN  IF n = 1 \/ n % 5 = 0
                THEN events'[r] = Append(events[r],
                                         ThinkingEv(decode(thinking_buffer'[r])))
                ELSE events'[r] = events[r]]_vars

C8_Witness ==
    \E r \in Reqs :
        /\ pc[r] \in {"loop", "finalize"}
        /\ Len(thinking_buffer[r]) = 5
        /\ CountType(r, "thinking") = 2
        /\ Last(events[r]) = ThinkingEv(decode(thinking_buffer[r]))

\* C9: when EOS is never sampled and nothing raises, the loop runs exactly
\* max_new_tokens iterations, one sampled token each, and
\* the finalization then emits ThinkingComplete if the phase is still Thinking
\* with a non-empty thinking buffer, and ResponseComplete if the response
\* buffer is non-empty, each with the decode of the full buffer.
C9_StepLimitFinalization ==
    /\ [](\A r \in Reqs :
            (pc[r] \in {"finalize", "save", "returned"}
             /\ DoneEv \notin Elems(events[r])) =>
                /\ step[r] = req[r].max_new_tokens
                /\ Len(Sampled(r)) = req[r].max_new_tokens)
    /\ [][\A r \in Reqs :
            (pc[r] = "finalize" /\ pc'[r] = "save"
             /\ DoneEv \notin Elems(events[r])) =>
                events'[r] = events[r]
                    \o (IF in_thinking[r] /\ Len(thinking_buffer[r]) > 0
                        THEN <<[type |-> "thinking_complete",
                                content |-> decode(thinking_buffer[r])]>>
                        ELSE <<>>)
                    \o (IF Len(response_buffer[r]) > 0
                        THEN <<[type |-> "response_complete",
                                content |-> decode(response_buffer[r])]>>
                        ELSE <<>>)]_vars

C9_Witness ==
    \E r \in Reqs :
        /\ pc[r] = "save"
        /\ DoneEv \notin Elems(events[r])
        /\ req[r].max_new_tokens >= 4
        /\ Len(Sampled(r)) = req[r].max_new_tokens
        /\ Len(response_buffer[r]) >= 2
        /\ Last(events[r]) = ResponseCompleteEv(decode(response_buffer[r]))

\* C10: the persisted assistant text is thinking + "\n\n" + response when both
\* decoded buffers are non-empty, the non-empty one when exactly one is, and
\* the empty text when both are empty.
C10_Expected(thinking, response) ==
    CASE thinking # <<>> /\ response # <<>> -> thinking \o <<"\n", "\n">> \o response
      [] thinking # <<>> /\ response = <<>> -> thinking
      [] thinking = <<>> /\ response # <<>> -> response
      [] OTHER -> <<>>

C10_PersistedText ==
    [][\A r \in Reqs :
        (pc[r] = "save" /\ pc'[r] = "returned") =>
            messages' = Append(messages,
                MessageRow(req[r].conversation_id, "assistant",
                           C10_Expected(decode(thinking_buffer[r]),
                                        decode(response_buffer[r]))))]_vars

C10_Witness ==
    \E r \in Reqs :
        /\ pc[r] = "returned"
        /\ decode(thinking_buffer[r]) # <<>>
        /\ decode(response_buffer[r]) # <<>>
        /\ Last(messages).role = "assistant"
        /\ Last(messages).content =
               decode(thinking_buffer[r]) \o <<"\n", "\n">> \o decode(response_buffer[r])

\* the assistant rows of a messages table, in order
AssistantTurns(rows) == SelectSeq(rows, LAMBDA m : m.role = "assistant")

\* r took the step: its control position, token sequence or event stream changed
Moved(r) ==
    <<pc'[r], generated_ids'[r], events'[r]>> # <<pc[r], generated_ids[r], events[r]>>

\* C11: when the forward pass or a decode raises in a loop iteration, the
\* events emitted so far are kept, exactly one Error event carrying the
\* message of the exception is appended as the last event, and afterwards the
\* generator emits nothing and runs no further forward pass.
C11_LoopFailureEmitsOneError ==
    /\ [][\A r \in Reqs :
            (pc[r] = "loop" /\ pc'[r] = "failed") =>
                /\ \A i \in 1..Len(events[r]) : ~IsTerminal(events[r][i])
                /\ events'[r] = Append(events[r],
                       [error |-> IF generated_ids'[r] = generated_ids[r]
                                  THEN "forward failed" ELSE "decode failed"])]_vars
    /\ [][\A r \in Reqs :
            pc[r] = "failed" =>
                /\ pc'[r] = "failed"
                /\ events'[r] = events[r]
                /\ forwards'[r] = forwards[r]
                /\ generated_ids'[r] = generated_ids[r]]_vars

C11_Witness ==
    \E r \in Reqs :
        /\ pc[r] = "failed"
        /\ step[r] >= 2
        /\ step[r] < req[r].max_new_tokens
        /\ Len(events[r]) >= 3
        /\ Last(events[r]) = [error |-> "forward failed"]

\* C12: in a run that emits an Error event the generation writes no assistant
\* turn: the assistant rows of the store are those present before the run.
C12_NoPersistenceOnError ==
    \A r \in Reqs :
        "error" \in EventTypes(r) =>
            AssistantTurns(messages) = AssistantTurns(InitialMessages)

C12_Witness ==
    \E r \in Reqs :
        /\ pc[r] = "failed"
        /\ "error" \in EventTypes(r)
        /\ thinking_buffer[r] # <<>>
        /\ response_buffer[r] # <<>>

\* C13: a generation completes without an Error event exactly when it
\* returns through the save; the save appends exactly one assistant row for the
\* request's own conversation and emits nothing; no other step of the generator
\* writes to the store, and after the save the generator emits nothing more.
C13_OneAssistantTurnAfterEvents ==
    /\ [](\A r \in Reqs :
            pc[r] = "returned" <=> (Completed(r) /\ "error" \notin EventTypes(r)))
    /\ [][\A r \in Reqs :
            (pc[r] = "save" /\ pc'[r] = "returned") =>
                /\ Len(messages') = Len(messages) + 1
                /\ SubSeq(messages', 1, Len(messages)) = messages
                /\ Last(messages').role = "assistant"
                /\ Last(messages').conversation_id = req[r].conversation_id
                /\ events'[r] = events[r]]_vars
    /\ [][\A r \in Reqs :
            (Moved(r) /\ pc[r] \in {"stream", "loop", "finalize"}) =>
                messages' = messages]_vars
    /\ [][\A r \in Reqs :
            pc[r] = "returned" => (pc'[r] = "returned" /\ events'[r] = events[r])]_vars

C13_Witness ==
    \E r \in Reqs :
        /\ pc[r] = "returned"
        /\ DoneEv \in Elems(events[r])
        /\ Len(events[r]) >= 3
        /\ Len(AssistantTurns(messages)) = Len(AssistantTurns(InitialMessages)) + 1
        /\ Last(messages).conversation_id = req[r].conversation_id

\* C14: the list given to the chat template is the turns the conversation held
\* before the request, in stored order, followed by the new prompt once; for a
\* request with conversation id <= 0 it is the new prompt alone.
C14_HistoryThenPromptOnce ==
    \A r \in Reqs :
        Generating(r) =>
            history[r] =
                (IF body[r].conversation_id <= 0 THEN <<>>
                 ELSE LET idx == SelectSeq([i \in 1..Len(InitialMessages) |-> i],
                                           LAMBDA i : InitialMessages[i].conversation_id
                                                          = body[r].conversation_id)
                      IN  [j \in 1..Len(idx) |->
                              [role |-> InitialMessages[idx[j]].role,
                               content |-> InitialMessages[idx[j]].content]])
                \o <<[role |-> "user", content |-> req[r].prompt]>>

\* C17: when the model or the tokenizer is not loaded, generate_stream emits
\* the single Error event "Model not loaded" and nothing else: no history is
\* read, no forward pass runs and no assistant turn is stored.
C17_ModelNotLoaded ==
    \A r \in Reqs :
        (pc[r] \notin {"absent", "idle", "rejected", "stream"}
         /\ (~model_loaded \/ ~tokenizer_loaded)) =>
            /\ pc[r] = "failed"
            /\ events[r] = <<[error |-> "Model not loaded"]>>
            /\ history[r] = <<>>
            /\ generated_ids[r] = <<>>
            /\ forwards[r] = 0
            /\ AssistantTurns(messages) = AssistantTurns(InitialMessages)

C17_Witness ==
    \E r \in Reqs :
        /\ pc[r] = "failed"
        /\ model_loaded
        /\ ~tokenizer_loaded
        /\ events[r] = <<[error |-> "Model not loaded"]>>

\* C18: a chat request without a body, without a prompt, or with a prompt that
\* is empty after trimming is answered 400 and changes nothing: no
\* conversation is created, no message is saved, no generation is started.
C18_EmptyPromptRejected ==
    /\ [][\A r \in Reqs :
            (/\ pc[r] = "idle"
             /\ pc'[r] # "idle"
             /\ \/ ~body'[r].has_data
                \/ \A i \in 1..Len(body'[r].prompt) : body'[r].prompt[i] = " ") =>
                /\ http'[r] = 400
                /\ pc'[r] = "rejected"
                /\ <<conversations', messages', next_conv_id'>>
                       = <<conversations, messages, next_conv_id>>
                /\ req'[r] = req[r]
                /\ events'[r] = events[r]]_vars
    /\ [][\A r \in Reqs :
            pc[r] = "rejected" =>
                (pc'[r] = "rejected" /\ events'[r] = events[r]
                 /\ forwards'[r] = forwards[r])]_vars

C18_Witness ==
    \E r \in Reqs :
        /\ http[r] = 400
        /\ pc[r] = "rejected"
        /\ body[r].has_data
        /\ body[r].prompt = <<" ">>
        /\ messages = InitialMessages

\* C19: a loop step appends to at most one buffer, the one of the current
\* phase, and leaves the other unchanged; once the phase is Responding the
\* thinking buffer is never modified again and the phase stays Responding;
\* outside the loop neither the buffers nor the phase change.
C19_OneBufferPerStep ==
    [][\A r \in Reqs :
        /\ pc[r] = "loop" =>
            /\ \/ thinking_buffer'[r] = thinking_buffer[r]
               \/ response_buffer'[r] = response_buffer[r]
            /\ thinking_buffer'[r] # thinking_buffer[r] =>
                   /\ in_thinking[r]
                   /\ thinking_buffer'[r] =
                          Append(thinking_buffer[r], Last(generated_ids'[r]))
            /\ response_buffer'[r] # response_buffer[r] =>
                   /\ ~in_thinking[r]
                   /\ response_buffer'[r] =
                          Append(response_buffer[r], Last(generated_ids'[r]))
            /\ ~in_thinking[r] =>
                   (~in_thinking'[r] /\ thinking_buffer'[r] = thinking_buffer[r])
        /\ pc[r] \in {"finalize", "save", "returned", "failed"} =>
            /\ thinking_buffer'[r] = thinking_buffer[r]
            /\ response_buffer'[r] = response_buffer[r]
            /\ in_thinking'[r] = in_thinking[r]]_vars

C19_Witness ==
    \E r \in Reqs :
        /\ pc[r] = "loop"
        /\ ~in_thinking[r]
        /\ Len(thinking_buffer[r]) >= 2
        /\ Len(response_buffer[r]) >= 2

\* ---------------------------------------------- simultaneous requests
\* the stored rows of one conversation, in stored order
ConvRows(rows, cid) == SelectSeq(rows, LAMBDA m : m.conversation_id = cid)

\* rows as the role/content turns given to the chat template
Turns(rows) ==
    [i \in 1..Len(rows) |-> [role |-> rows[i].role, content |-> rows[i].content]]

\* everything a request's handler and generator own
OwnState(r) ==
    <<pc[r], http[r], body[r], req[r], history[r], input_length[r],
      generated_ids[r], thinking_buffer[r], response_buffer[r], in_thinking[r],
      step[r], forwards[r], logits[r], events[r]>>

\* chat() accepted the request and built a generator for it
Accepted(r) == req[r] # NoRequest

\* the generator of s has been built and has neither returned nor raised
InFlight(s) == pc[s] \in {"stream", "loop", "finalize", "save"}

\* no other accepted request addresses r's conversation
Isolated(r) ==
    /\ Accepted(r)
    /\ \A s \in Reqs \ {r} :
           Accepted(s) => req[s].conversation_id # req[r].conversation_id

\* the history a request builds when it is the only one on its conversation
\* (the user turn stored by chat() is read back, then the prompt is appended)
AloneHistory(r) ==
    (IF req[r].conversation_id \in conversations
     THEN Turns(ConvRows(InitialMessages, req[r].conversation_id))
              \o <<[role |-> "user", content |-> req[r].prompt]>>
     ELSE <<>>)
    \o <<[role |-> "user", content |-> req[r].prompt]>>

\* C15: two simultaneous generations on different conversation ids are
\* isolated: each request's history and stored conversation are what they are
\* when it runs alone (its own prior turns, its user turn, and after a normal
\* return one assistant turn made of its own buffers), and a step of one
\* request changes nothing the other request owns nor any other conversation.
C15_DifferentConversationsIsolated ==
    /\ [](\A r \in Reqs :
            Isolated(r) =>
                /\ Generating(r) => history[r] = AloneHistory(r)
                /\ ConvRows(messages, req[r].conversation_id) =
                       ConvRows(InitialMessages, req[r].conversation_id)
                       \o <<[conversation_id |-> req[r].conversation_id,
                             role |-> "user", content |-> req[r].prompt]>>
                       \o (IF pc[r] = "returned"
                           THEN <<[conversation_id |-> req[r].conversation_id,
                                   role |-> "assistant",
                                   content |-> C10_Expected(
                                       FinalText(thinking_buffer[r]),
                                       FinalText(response_buffer[r]))]>>
                           ELSE <<>>))
    /\ [][\A r \in Reqs :
            OwnState(r)' # OwnState(r) =>
                /\ \A s \in Reqs \ {r} : OwnState(s)' = OwnState(s)
                /\ \A c \in (conversations' \cup {7}) \ {req'[r].conversation_id} :
                       ConvRows(messages', c) = ConvRows(messages, c)]_vars

\* both requests were accepted on different conversations before either
\* stored its assistant turn, and both returned normally
C15_Witness ==
    /\ pc[1] = "returned"
    /\ pc[2] = "returned"
    /\ req[1].conversation_id # req[2].conversation_id
    /\ Len(messages) = Len(InitialMessages) + 4
    /\ messages[Len(InitialMessages) + 1].role = "user"
    /\ messages[Len(InitialMessages) + 2].role = "user"
    /\ thinking_buffer[1] # <<>>
    /\ thinking_buffer[2] # <<>>

\* C16: two simultaneous requests on the same conversation are not
\* serialized: a request that builds its history while the other is in flight
\* reads the other's user turn with no assistant reply to it (its history ends
\* with three user turns), and while both are in flight the stored
\* conversation ends with two user turns in a row.
C16_SameConversationNotSerialized ==
    /\ [][\A r \in Reqs : \A s \in Reqs \ {r} :
            (/\ pc[r] = "stream"
             /\ pc'[r] = "loop"
             /\ InFlight(s)
             /\ req[s].conversation_id = req[r].conversation_id
             /\ req[r].conversation_id \in conversations) =>
                LET h == history'[r]
                    n == Len(h)
                IN  /\ n = Len(ConvRows(InitialMessages, req[r].conversation_id)) + 3
                    /\ \A i \in (n - 2)..n : h[i].role = "user"]_vars
    /\ [](\A r \in Reqs : \A s \in Reqs \ {r} :
            (/\ InFlight(r)
             /\ InFlight(s)
             /\ req[s].conversation_id = req[r].conversation_id) =>
                LET rows == ConvRows(messages, req[r].conversation_id)
                    n == Len(rows)
                IN  /\ n >= 2
                    /\ rows[n - 1].role = "user"
                    /\ rows[n].role = "user")

\* both requests ran on conversation 1, one read the other's unanswered user
\* turn, and the stored conversation ends user, user, assistant, assistant
C16_Witness ==
    /\ pc[1] = "returned"
    /\ pc[2] = "returned"
    /\ req[1].conversation_id = 1
    /\ req[2].conversation_id = 1
    /\ \E r \in {1, 2} : Len(history[r]) = Len(InitialMessages) + 3
    /\ LET rows == ConvRows(messages, 1)
           n == Len(rows)
       IN  /\ n = Len(InitialMessages) + 4
           /\ <<rows[n - 3].role, rows[n - 2].role, rows[n - 1].role, rows[n].role>>
                  = <<"user", "user", "assistant", "assistant">>

\* ------------------------------------------------------------- sampling
\* the vector has a NaN, +inf or -inf entry
NonFinite(lg) == \E i \in DOMAIN lg : isnan(lg[i]) \/ isinf(lg[i])

\* C20: for every logits vector with a NaN, +inf or -inf entry the sampling
\* step does not raise, no Error event carrying the sampler's exception is
\* emitted, and one id of the vocabulary is appended to the token sequence.
C20_NonFiniteLogitsSampled ==
    [][\A r \in Reqs :
          (/\ pc[r] = "loop"
           /\ logits[r] # NoLogits
           /\ NonFinite(logits[r])
           /\ OwnState(r)' # OwnState(r)) =>
              /\ \A i \in 1..Len(events'[r]) :
                     events'[r][i] # [error |-> MultinomialError]
              /\ Len(generated_ids'[r]) = Len(generated_ids[r]) + 1
              /\ Last(generated_ids'[r]) \in Vocab]_vars

\* no entry of the vector is NaN
NoNaN(lg) == \A i \in DOMAIN lg : ~isnan(lg[i])

\* the entries a filter left as candidates (not set to -inf)
Kept(lg) == {i \in DOMAIN lg : lg[i] # NegInf}

\* the number of entries ranked strictly above entry i
RankAbove(lg, i) == Cardinality({j \in DOMAIN lg : Before(lg[j], lg[i])})

\* the temperature-scaled logits of the iteration r is about to run
ScaledLogits(r) == Scaled(Clamped(logits[r]), req[r].temperature)

\* r runs a loop iteration on a logits vector of numbers
SamplesNumbers(r) ==
    /\ pc[r] = "loop"
    /\ logits[r] # NoLogits
    /\ NoNaN(logits[r])
    /\ OwnState(r)' # OwnState(r)

\* C21: top-k filtering with top_k = k > 0 leaves at most k entries of the
\* temperature-scaled logits finite (also when values are tied), sets every
\* other entry to -inf and changes no kept entry, and the sampled token is
\* one of the k highest-ranked entries.
C21_TopKKeepsAtMostK ==
    [][\A r \in Reqs :
          SamplesNumbers(r) =>
              LET scaled == ScaledLogits(r)
                  filtered == TopKFiltered(scaled, top_k)
              IN  /\ Cardinality(Kept(filtered)) <= top_k
                  /\ \A i \in DOMAIN scaled :
                         filtered[i] = NegInf \/ filtered[i] = scaled[i]
                  /\ Len(generated_ids'[r]) = Len(generated_ids[r]) + 1 =>
                         RankAbove(scaled, Last(generated_ids'[r])) < top_k]_vars

\* the smallest finite logit of the vector
LowestFinite(lg) ==
    CHOOSE m \in {lg[i].v : i \in {h \in DOMAIN lg : lg[h].k = "fin"}} :
        \A i \in DOMAIN lg : lg[i].k = "fin" => m <= lg[i].v

\* the shortest prefix of the sorted order perm whose cumulative probability
\* is at least p20 twentieths
MinimalPrefix(lg, perm, p20) ==
    LET lowest == LowestFinite(lg)
        total == CumWeight(lg, perm, lowest, Len(perm))
        reaches(m) == CumWeight(lg, perm, lowest, m) * 20 >= p20 * total
        n == CHOOSE m \in 1..Len(perm) :
                 reaches(m) /\ \A h \in 1..(m - 1) : ~reaches(h)
    IN  {perm[j] : j \in 1..n}

\* C22: top-p filtering with p < 1.0 keeps exactly the shortest prefix of the
\* descending order whose cumulative probability is >= p (so when a prefix
\* reaches p exactly no further candidate is kept), and the sampled token is
\* never outside that prefix.
C22_TopPKeepsMinimalPrefix ==
    [][\A r \in Reqs :
          SamplesNumbers(r) =>
              LET candidates == TopKFiltered(ScaledLogits(r), top_k)
                  p20 == top_p(req[r].enable_thinking)
              IN  /\ \A perm \in DescendingOrders(candidates) :
                         Kept(TopPFiltered(candidates, perm, p20))
                             = MinimalPrefix(candidates, perm, p20)
                  /\ Len(generated_ids'[r]) = Len(generated_ids[r]) + 1 =>
                         \E perm \in DescendingOrders(candidates) :
                             Last(generated_ids'[r])
                                 \in MinimalPrefix(candidates, perm, p20)]_vars

\* ------------------------------------------------------------ accounting
\* seq without its first occurrence of x
RECURSIVE WithoutFirst(_, _)
WithoutFirst(seq, x) ==
    IF seq = <<>> THEN <<>>
    ELSE IF Head(seq) = x THEN Tail(seq)
    ELSE <<Head(seq)>> \o WithoutFirst(Tail(seq), x)

\* the sampled ids that belong in a buffer: all but EOS and the marker that
\* ended the Thinking phase
Buffered(sampled) ==
    SelectSeq(WithoutFirst(sampled, thinking_token_id), LAMBDA t : t # eos_token_id)

\* C24: after every loop step the full id sequence is the prompt ids
\* followed by the sampled ids in order, and the thinking buffer followed by
\* the response buffer is the sampled sequence without EOS and without the
\* first thinking-end marker; the thinking buffer is the part sampled
\* before that marker.
C24_TokenAccounting ==
    \A r \in Reqs :
        Generating(r) =>
            /\ input_length[r] <= Len(generated_ids[r])
            /\ SubSeq(generated_ids[r], 1, input_length[r])
                   = apply_chat_template(history[r], req[r].enable_thinking)
            /\ Len(Sampled(r)) = step[r]
            /\ thinking_buffer[r] \o response_buffer[r] = Buffered(Sampled(r))
            /\ \A i \in 1..Len(thinking_buffer[r]) :
                   thinking_buffer[r][i] = Sampled(r)[i]
            /\ in_thinking[r] => response_buffer[r] = <<>>

\* a run that sampled the marker twice and ended on EOS with both buffers
\* filled
C24_Witness ==
    \E r \in Reqs :
        /\ pc[r] = "returned"
        /\ Count(thinking_token_id, Sampled(r)) = 2
        /\ Last(Sampled(r)) = eos_token_id
        /\ thinking_buffer[r] # <<>>
        /\ Len(response_buffer[r]) >= 2

\* C25: a run that ends without an Error event has exactly one
\* ThinkingComplete event when its thinking buffer is non-empty or the
\* marker was sampled in the Thinking phase; no run has more than one; its
\* content is the decode of the final thinking buffer and no Thinking event
\* follows it.
C25_ThinkingCompleteOnce ==
    \A r \in Reqs :
        /\ CountType(r, "thinking_complete") <= 1
        /\ \A i, j \in 1..Len(events[r]) :
               (i < j /\ EventType(events[r][i]) = "thinking_complete") =>
                   EventType(events[r][j]) # "thinking"
        /\ pc[r] \in {"save", "returned"} =>
               /\ (thinking_buffer[r] # <<>> \/ ~in_thinking[r]) =>
                      CountType(r, "thinking_complete") = 1
               /\ \A i \in 1..Len(events[r]) :
                      EventType(events[r][i]) = "thinking_complete" =>
                          events[r][i].content = decode(thinking_buffer[r])

\* the marker ended a non-empty Thinking phase, a response followed and the
\* run returned
C25_Witness ==
    \E r \in Reqs :
        /\ pc[r] = "returned"
        /\ ~in_thinking[r]
        /\ Len(thinking_buffer[r]) >= 2
        /\ response_buffer[r] # <<>>
        /\ CountType(r, "thinking_complete") = 1

\* C26: a chat request rejected with 503 because no model is loaded leaves
\* the conversation store as it was: no conversation is created and no user
\* message is saved.
C26_RejectedLeavesStoreUnchanged ==
    [][\A r \in Reqs :
          (pc[r] = "idle" /\ http'[r] = 503) =>
              /\ conversations' = conversations
              /\ next_conv_id' = next_conv_id
              /\ messages' = messages]_vars

\* ---------------------------------------------------------------- store
\* C23: delete_conversation(id) on an existing conversation returns True,
\* after which get_conversation(id) returns None and no message row carries
\* that conversation id; on a missing id it returns False and the store is
\* unchanged.
C23_DeleteRemovesConversationAndMessages ==
    [][(db_result' # db_result /\ db_result'.op = "delete_conversation") =>
          IF db_result'.id \in conversations
          THEN /\ db_result'.deleted
               /\ db_result'.id \notin conversations'
               /\ \A i \in 1..Len(messages') :
                      messages'[i].conversation_id # db_result'.id
          ELSE /\ ~db_result'.deleted
               /\ UNCHANGED store]_vars

====
